---- MODULE Spec2Model ----
(***************************************************************************)
(* Yahtzee scoring rules (src/src/Rules.js).                               *)
(*                                                                         *)
(* The module exports thirteen rule instances; each has one operation,     *)
(* evalRoll(dice), which scores a roll.  A caller holds a roll, calls      *)
(* rules on it and changes dice between calls.  The model keeps the        *)
(* caller's dice array, the instances' own properties, and the outcome of  *)
(* the last call.                                                          *)
(***************************************************************************)
EXTENDS Integers, Sequences, FiniteSets, TLC

NumDice == 5
Sides == 6

\* Bound of the unguarded call surface: arrays of up to MaxLen elements.
MaxLen == 6

VARIABLES dice, rules, called, ret, threw

vars == <<dice, rules, called, ret, threw>>

----------------------------------------------------------------------------
(* Array and Map primitives of the language, as the code uses them *)

\* Array.prototype.reduce((prev, curr) => prev + curr) without an initial
\* value: left fold seeded with the first element.  It throws TypeError on
\* an empty array (see sumThrows).
RECURSIVE reduceAdd(_, _, _)
reduceAdd(arr, i, prev) ==
  IF i > Len(arr) THEN prev ELSE reduceAdd(arr, i + 1, prev + arr[i])

\* Map.prototype.get followed by `|| 0`; a Map is kept as the sequence of
\* its <<key, value>> entries in insertion order.
mapGetOr0(m, k) ==
  IF \E i \in DOMAIN m : m[i][1] = k
    THEN LET i == CHOOSE j \in DOMAIN m : m[j][1] = k IN m[i][2]
    ELSE 0

\* Map.prototype.set: an existing key keeps its position, a new key is
\* appended.
mapSet(m, k, v) ==
  IF \E i \in DOMAIN m : m[i][1] = k
    THEN [i \in DOMAIN m |-> IF m[i][1] = k THEN <<k, v>> ELSE m[i]]
    ELSE Append(m, <<k, v>>)

\* Array.from(new Set(arr)): the distinct elements in first-seen order.
RECURSIVE arrayFromSet(_, _, _)
arrayFromSet(arr, i, acc) ==
  IF i > Len(arr) THEN acc
  ELSE arrayFromSet(arr, i + 1,
         IF \E j \in DOMAIN acc : acc[j] = arr[i] THEN acc
         ELSE Append(acc, arr[i]))

\* String(n) for a non-negative integer, as its sequence of decimal digits.
RECURSIVE toString(_)
toString(n) ==
  IF n < 10 THEN <<n>> ELSE Append(toString(n \div 10), n % 10)

\* s < t in code-unit order (the order Array.prototype.sort uses when it is
\* given no comparator: elements are compared as strings).
RECURSIVE strLess(_, _)
strLess(s, t) ==
  IF t = <<>> THEN FALSE
  ELSE IF s = <<>> THEN TRUE
  ELSE IF Head(s) # Head(t) THEN Head(s) < Head(t)
  ELSE strLess(Tail(s), Tail(t))

\* Array.prototype.sort() with the default comparator.
RECURSIVE insertSorted(_, _)
insertSorted(sorted, x) ==
  IF sorted = <<>> THEN <<x>>
  ELSE IF strLess(toString(x), toString(Head(sorted)))
    THEN <<x>> \o sorted
    ELSE <<Head(sorted)>> \o insertSorted(Tail(sorted), x)

RECURSIVE sortDefault(_, _, _)
sortDefault(arr, i, acc) ==
  IF i > Len(arr) THEN acc
  ELSE sortDefault(arr, i + 1, insertSorted(acc, arr[i]))

\* arr[i] === n for a 0-based index; an index past the end reads undefined,
\* which is strictly equal to no number.
strictEqAt(arr, i, n) == (i + 1) \in DOMAIN arr /\ arr[i + 1] = n

----------------------------------------------------------------------------
(* class Rule *)

sum(d) == reduceAdd(d, 2, d[1])
sumThrows(d) == d = <<>>

RECURSIVE freqLoop(_, _, _)
freqLoop(d, i, freqs) ==
  IF i > Len(d) THEN freqs
  ELSE freqLoop(d, i + 1, mapSet(freqs, d[i], mapGetOr0(freqs, d[i]) + 1))

\* Variant: the keys of the Map are returned in place of its values.
freq_Keys(d) ==
  LET freqs == freqLoop(d, 1, <<>>)
  IN  [i \in DOMAIN freqs |-> freqs[i][1]]

freq(d) ==
  LET freqs == freqLoop(d, 1, <<>>)
  IN  [i \in DOMAIN freqs |-> freqs[i][2]]

count(d, val) == Len(SelectSeq(d, LAMBDA x : x = val))

----------------------------------------------------------------------------
(* The rule classes.  evalRoll yields the returned value, whether the call *)
(* threw, and the argument array and the instance as the call leaves them. *)

Outcome(r, t, d, self) == [ret |-> r, threw |-> t, dice |-> d, self |-> self]

\* Variant: the count is returned without the multiplication by val.
TotalOneNumber_evalRoll_CountOnly(self, d) ==
  Outcome(count(d, self.val), FALSE, d, self)

TotalOneNumber_evalRoll(self, d) ==
  Outcome(self.val * count(d, self.val), FALSE, d, self)

\* Variant: the comparison is c > this.count.
SumDistro_evalRoll_Strict(self, d) ==
  LET f == freq(d)
      some == \E i \in DOMAIN f : f[i] > self.count
  IN  IF some
        THEN IF sumThrows(d) THEN Outcome(0, TRUE, d, self)
             ELSE Outcome(sum(d), FALSE, d, self)
        ELSE Outcome(0, FALSE, d, self)

SumDistro_evalRoll(self, d) ==
  LET f == freq(d)
      some == \E i \in DOMAIN f : f[i] >= self.count
  IN  IF some
        THEN IF sumThrows(d) THEN Outcome(0, TRUE, d, self)
             ELSE Outcome(sum(d), FALSE, d, self)
        ELSE Outcome(0, FALSE, d, self)

\* Variant: only the order "three first, pair second" is tested.
FullHouse_evalRoll_OneOrder(self, d) ==
  LET f == freq(d)
  IN  IF strictEqAt(f, 0, 3) /\ strictEqAt(f, 1, 2)
        THEN Outcome(self.score, FALSE, d, self)
        ELSE Outcome(0, FALSE, d, self)

FullHouse_evalRoll(self, d) ==
  LET f == freq(d)
  IN  IF (strictEqAt(f, 0, 3) /\ strictEqAt(f, 1, 2))
         \/ (strictEqAt(f, 0, 2) /\ strictEqAt(f, 1, 3))
        THEN Outcome(self.score, FALSE, d, self)
        ELSE Outcome(0, FALSE, d, self)

\* Variant: the else branch that resets `consecutive` is missing.
RECURSIVE smallStraightLoop_NoReset(_, _, _, _)
smallStraightLoop_NoReset(d, i, consecutive, highestConsec) ==
  IF ~(i < Len(d) - 1) THEN highestConsec
  ELSE IF d[i + 1] + 1 = d[i + 2]
    THEN smallStraightLoop_NoReset(d, i + 1, consecutive + 1,
           IF consecutive + 1 > highestConsec THEN consecutive + 1
           ELSE highestConsec)
    ELSE smallStraightLoop_NoReset(d, i + 1, consecutive, highestConsec)

RECURSIVE smallStraightLoop(_, _, _, _)
smallStraightLoop(d, i, consecutive, highestConsec) ==
  IF ~(i < Len(d) - 1) THEN highestConsec
  ELSE IF d[i + 1] + 1 = d[i + 2]
    THEN smallStraightLoop(d, i + 1, consecutive + 1,
           IF consecutive + 1 > highestConsec THEN consecutive + 1
           ELSE highestConsec)
    ELSE smallStraightLoop(d, i + 1, 1, highestConsec)

\* Variant: the argument array itself is sorted before the distinct values
\* are taken.
SmallStraight_evalRoll_SortInPlace(self, dIn) ==
  LET sortedIn == sortDefault(dIn, 1, <<>>)
      d == arrayFromSet(sortedIn, 1, <<>>)
      highestConsec == smallStraightLoop(d, 0, 1, 0)
  IN  IF highestConsec >= 4
        THEN Outcome(self.score, FALSE, sortedIn, self)
        ELSE Outcome(0, FALSE, sortedIn, self)

SmallStraight_evalRoll(self, dIn) ==
  LET copy == arrayFromSet(dIn, 1, <<>>)
      d == sortDefault(copy, 1, <<>>)
      highestConsec == smallStraightLoop(d, 0, 1, 0)
  IN  IF highestConsec >= 4
        THEN Outcome(self.score, FALSE, dIn, self)
        ELSE Outcome(0, FALSE, dIn, self)

\* Variant: any five distinct values qualify.
LargeStraight_evalRoll_AnyFive(self, dIn) ==
  LET d == {dIn[i] : i \in DOMAIN dIn}
  IN  IF Cardinality(d) = 5
        THEN Outcome(self.score, FALSE, dIn, self)
        ELSE Outcome(0, FALSE, dIn, self)

LargeStraight_evalRoll(self, dIn) ==
  LET d == {dIn[i] : i \in DOMAIN dIn}
  IN  IF Cardinality(d) = 5 /\ (~(1 \in d) \/ ~(6 \in d))
        THEN Outcome(self.score, FALSE, dIn, self)
        ELSE Outcome(0, FALSE, dIn, self)

\* Variant: four equal dice are enough.
Yahtzee_evalRoll_FourUp(self, d) ==
  LET f == freq(d)
  IN  IF strictEqAt(f, 0, 5) \/ strictEqAt(f, 0, 4)
        THEN Outcome(self.score, FALSE, d, self)
        ELSE Outcome(0, FALSE, d, self)

Yahtzee_evalRoll(self, d) ==
  IF strictEqAt(freq(d), 0, 5)
    THEN Outcome(self.score, FALSE, d, self)
    ELSE Outcome(0, FALSE, d, self)

\* Method dispatch on the instance's class.
evalRoll(self, d) ==
  CASE self.cls = "TotalOneNumber" -> TotalOneNumber_evalRoll(self, d)
    [] self.cls = "SumDistro"      -> SumDistro_evalRoll(self, d)
    [] self.cls = "FullHouse"      -> FullHouse_evalRoll(self, d)
    [] self.cls = "SmallStraight"  -> SmallStraight_evalRoll(self, d)
    [] self.cls = "LargeStraight"  -> LargeStraight_evalRoll(self, d)
    [] self.cls = "Yahtzee"        -> Yahtzee_evalRoll(self, d)

----------------------------------------------------------------------------
(* The exported instances *)

RuleNames ==
  {"ones", "twos", "threes", "fours", "fives", "sixes", "threeOfKind",
   "fourOfKind", "fullHouse", "smallStraight", "largeStraight", "yahtzee",
   "chance"}

\* Variant: largeStraight is constructed with smallStraight's score.
instances_CopiedScore ==
  [n \in RuleNames |->
    CASE n = "ones"          -> [cls |-> "TotalOneNumber", val |-> 1]
      [] n = "twos"          -> [cls |-> "TotalOneNumber", val |-> 2]
      [] n = "threes"        -> [cls |-> "TotalOneNumber", val |-> 3]
      [] n = "fours"         -> [cls |-> "TotalOneNumber", val |-> 4]
      [] n = "fives"         -> [cls |-> "TotalOneNumber", val |-> 5]
      [] n = "sixes"         -> [cls |-> "TotalOneNumber", val |-> 6]
      [] n = "threeOfKind"   -> [cls |-> "SumDistro", count |-> 3]
      [] n = "fourOfKind"    -> [cls |-> "SumDistro", count |-> 4]
      [] n = "fullHouse"     -> [cls |-> "FullHouse", score |-> 25]
      [] n = "smallStraight" -> [cls |-> "SmallStraight", score |-> 30]
      [] n = "largeStraight" -> [cls |-> "LargeStraight", score |-> 30]
      [] n = "yahtzee"       -> [cls |-> "Yahtzee", score |-> 50]
      [] n = "chance"        -> [cls |-> "SumDistro", count |-> 0]]

instances ==
  [n \in RuleNames |->
    CASE n = "ones"          -> [cls |-> "TotalOneNumber", val |-> 1]
      [] n = "twos"          -> [cls |-> "TotalOneNumber", val |-> 2]
      [] n = "threes"        -> [cls |-> "TotalOneNumber", val |-> 3]
      [] n = "fours"         -> [cls |-> "TotalOneNumber", val |-> 4]
      [] n = "fives"         -> [cls |-> "TotalOneNumber", val |-> 5]
      [] n = "sixes"         -> [cls |-> "TotalOneNumber", val |-> 6]
      [] n = "threeOfKind"   -> [cls |-> "SumDistro", count |-> 3]
      [] n = "fourOfKind"    -> [cls |-> "SumDistro", count |-> 4]
      [] n = "fullHouse"     -> [cls |-> "FullHouse", score |-> 25]
      [] n = "smallStraight" -> [cls |-> "SmallStraight", score |-> 30]
      [] n = "largeStraight" -> [cls |-> "LargeStraight", score |-> 40]
      [] n = "yahtzee"       -> [cls |-> "Yahtzee", score |-> 50]
      [] n = "chance"        -> [cls |-> "SumDistro", count |-> 0]]

----------------------------------------------------------------------------
(* The caller *)

ValidRoll(d) == Len(d) = NumDice /\ \A i \in DOMAIN d : d[i] \in 1..Sides
ValidRolls == [1..NumDice -> 1..Sides]
\* Arrays a caller can pass although they are no rolls: any length up to
\* MaxLen, elements at and just beyond both ends of the face range.
AnyFaces == {0, 1, 2, Sides, Sides + 1}
AnyRolls == UNION {[1..n -> AnyFaces] : n \in 0..MaxLen}

Init ==
  /\ dice \in ValidRolls
  /\ rules = instances
  /\ called = "none"
  /\ ret = 0
  /\ threw = FALSE

InitAny ==
  /\ dice \in AnyRolls
  /\ rules = instances
  /\ called = "none"
  /\ ret = 0
  /\ threw = FALSE

\* rule.evalRoll(dice): one call of an exported rule on the caller's array.
Call(n) ==
  LET out == evalRoll(rules[n], dice)
  IN  /\ called = "none"
      /\ called' = n
      /\ ret' = out.ret
      /\ threw' = out.threw
      /\ dice' = out.dice
      /\ rules' = [rules EXCEPT ![n] = out.self]

\* The caller takes the outcome of the call; it can then call again on the
\* same array.
TakeResult ==
  /\ called # "none"
  /\ called' = "none"
  /\ ret' = 0
  /\ threw' = FALSE
  /\ UNCHANGED <<dice, rules>>

\* The caller re-rolls one die, before it scores the roll.
Reroll(i, v) ==
  /\ called = "none"
  /\ i \in DOMAIN dice
  /\ dice[i] # v
  /\ dice' = [dice EXCEPT ![i] = v]
  /\ called' = "none"
  /\ ret' = 0
  /\ threw' = FALSE
  /\ UNCHANGED rules

\* A caller that does not keep to five dice: it passes a longer or a shorter
\* array.
AddDie(v) ==
  /\ called = "none"
  /\ Len(dice) < MaxLen
  /\ dice' = Append(dice, v)
  /\ called' = "none"
  /\ ret' = 0
  /\ threw' = FALSE
  /\ UNCHANGED rules

DropDie ==
  /\ called = "none"
  /\ dice # <<>>
  /\ dice' = SubSeq(dice, 1, Len(dice) - 1)
  /\ called' = "none"
  /\ ret' = 0
  /\ threw' = FALSE
  /\ UNCHANGED rules

Next ==
  \/ \E n \in RuleNames : Call(n)
  \/ TakeResult
  \/ \E i \in 1..NumDice, v \in 1..Sides : Reroll(i, v)

NextAny ==
  \/ \E n \in RuleNames : Call(n)
  \/ TakeResult
  \/ \E i \in 1..MaxLen, v \in AnyFaces : Reroll(i, v)
  \/ \E v \in AnyFaces : AddDie(v)
  \/ DropDie

Spec == Init /\ [][Next]_vars

SpecAny == InitAny /\ [][NextAny]_vars

----------------------------------------------------------------------------
(* Vocabulary of the properties *)

Faces(d) == {d[i] : i \in DOMAIN d}
Cnt(d, v) == Cardinality({i \in DOMAIN d : d[i] = v})

RECURSIVE WeightedCount(_, _)
WeightedCount(d, S) ==
  IF S = {} THEN 0
  ELSE LET v == CHOOSE x \in S : TRUE
       IN  v * Cnt(d, v) + WeightedCount(d, S \ {v})
Total(d) == WeightedCount(d, Faces(d))

Permuted(d, p) == [i \in DOMAIN d |-> d[p[i]]]
Orders == Permutations(1..NumDice)

FaceRules == {"ones", "twos", "threes", "fours", "fives", "sixes"}
SetRules == {"threeOfKind", "fourOfKind", "chance"}

----------------------------------------------------------------------------
(* Properties *)

\* C1: on a valid roll smallStraight.evalRoll returns 30 if the distinct
\* values include four consecutive faces ({1,2,3,4}, {2,3,4,5} or {3,4,5,6})
\* and 0 otherwise; duplicates neither extend nor break a run.
SmallStraightScore ==
  (called = "smallStraight" /\ ValidRoll(dice)) =>
    /\ ~threw
    /\ ret = IF \E a \in 1..3 : {a, a + 1, a + 2, a + 3} \subseteq Faces(dice)
               THEN 30 ELSE 0

SmallStraightWitness ==
  /\ called = "smallStraight"
  /\ dice = <<4, 1, 3, 4, 2>>
  /\ ret = 30

\* C2: on a valid roll fullHouse.evalRoll returns 25 exactly when one face
\* appears exactly three times and another exactly twice, and 0 for every
\* other roll; every five-of-a-kind scores 0.
FullHouseScore ==
  (called = "fullHouse" /\ ValidRoll(dice)) =>
    /\ ~threw
    /\ ret = IF \E a, b \in 1..Sides :
                  a # b /\ Cnt(dice, a) = 3 /\ Cnt(dice, b) = 2
               THEN 25 ELSE 0
    /\ (\E a \in 1..Sides : Cnt(dice, a) = 5) => ret = 0

FullHouseWitness ==
  /\ called = "fullHouse"
  /\ dice = <<2, 5, 2, 5, 5>>
  /\ ret = 25

\* C3: on a valid roll yahtzee.evalRoll returns 50 exactly when all five dice
\* show the same value and 0 otherwise; the test "first frequency entry is 5"
\* agrees with "the frequency list is the single entry 5".
YahtzeeScore ==
  (called = "yahtzee" /\ ValidRoll(dice)) =>
    /\ ~threw
    /\ ret = IF \A i, j \in DOMAIN dice : dice[i] = dice[j] THEN 50 ELSE 0
    /\ (ret = 50) <=> (freq(dice) = <<5>>)

YahtzeeWitness ==
  /\ called = "yahtzee"
  /\ dice = <<4, 4, 4, 4, 4>>
  /\ ret = 50

\* C4: on a valid roll largeStraight.evalRoll returns 40 exactly when the
\* values are a permutation of 1..5 or of 2..6, and 0 otherwise.
LargeStraightScore ==
  (called = "largeStraight" /\ ValidRoll(dice)) =>
    /\ ~threw
    /\ ret = IF Faces(dice) = 1..5 \/ Faces(dice) = 2..6 THEN 40 ELSE 0

LargeStraightWitness ==
  /\ called = "largeStraight"
  /\ dice = <<6, 2, 5, 3, 4>>
  /\ ret = 40

\* C5: on a valid roll a SumDistro instance with minimum multiplicity M
\* (threeOfKind 3, fourOfKind 4, chance 0) returns the sum of all five dice
\* if some face occurs at least M times and 0 otherwise; chance always
\* returns the sum.
MatchingSetSumScore ==
  (called \in SetRules /\ ValidRoll(dice)) =>
    LET M == CASE called = "threeOfKind" -> 3
               [] called = "fourOfKind"  -> 4
               [] called = "chance"      -> 0
    IN  /\ ~threw
        /\ ret = IF \E v \in 1..Sides : Cnt(dice, v) >= M
                   THEN Total(dice) ELSE 0
        /\ called = "chance" => ret = Total(dice)

MatchingSetSumWitness ==
  /\ called = "threeOfKind"
  /\ dice = <<3, 2, 3, 2, 3>>
  /\ ret = 13

\* C6: on a valid roll the TotalOneNumber instance for face V returns V times
\* the number of dice equal to V, one of 0, V, 2V, 3V, 4V, 5V.
FaceValueSumScore ==
  (called \in FaceRules /\ ValidRoll(dice)) =>
    LET V == CASE called = "ones"   -> 1
               [] called = "twos"   -> 2
               [] called = "threes" -> 3
               [] called = "fours"  -> 4
               [] called = "fives"  -> 5
               [] called = "sixes"  -> 6
    IN  /\ ~threw
        /\ ret = V * Cnt(dice, V)
        /\ ret \in {k * V : k \in 0..NumDice}

FaceValueSumWitness ==
  /\ called = "fours"
  /\ dice = <<4, 1, 4, 6, 4>>
  /\ ret = 12

\* C7: the order of the dice is irrelevant to every rule: the score returned
\* for a valid roll is the score of every permutation of that roll.
OrderIrrelevant ==
  (called # "none" /\ ValidRoll(dice)) =>
    \A p \in Orders :
      LET out == evalRoll(rules[called], Permuted(dice, p))
      IN  out.ret = ret /\ out.threw = threw

OrderIrrelevantWitness ==
  /\ called = "fullHouse"
  /\ dice = <<2, 2, 3, 3, 3>>
  /\ ret = 25

\* C8: on a valid roll every rule returns a non-negative integer, and a flat
\* score rule returns 0 or exactly its flat score (25, 30, 40, 50).
ScoreRange ==
  (called # "none" /\ ValidRoll(dice)) =>
    /\ ~threw
    /\ ret \in Nat
    /\ called = "fullHouse" => ret \in {0, 25}
    /\ called = "smallStraight" => ret \in {0, 30}
    /\ called = "largeStraight" => ret \in {0, 40}
    /\ called = "yahtzee" => ret \in {0, 50}

ScoreRangeWitness ==
  /\ called = "smallStraight"
  /\ dice = <<3, 4, 5, 6, 6>>
  /\ ret = 30

\* C9: a call on a malformed roll (length other than 5, or a value outside
\* 1..6) is reported as an error: no rule returns a score for it.
MalformedRollRejected ==
  (called # "none" /\ ~ValidRoll(dice)) => threw

\* C10: no evalRoll call changes the dice array it is given (elements and
\* order) or any instance's properties.
EvalRollChangesNothing ==
  [][called' # "none" => (dice' = dice /\ rules' = rules)]_vars

EvalRollChangesNothingWitness ==
  /\ called = "smallStraight"
  /\ dice = <<5, 3, 4, 3, 2>>
  /\ ret = 30
  /\ rules = instances

====
